---- MODULE Spec2Model ----
(***************************************************************************)
(* A model of serve.mjs, the development static server of KSPohoda/web.    *)
(*                                                                         *)
(* Strings of the program are modelled as sequences of one-character       *)
(* strings, so that slicing, prefix tests, regular expressions and         *)
(* path normalisation are computed character by character as the code      *)
(* and the Node.js library compute them.                                   *)
(*                                                                         *)
(* JavaScript values are tagged records (JSUndefined, JSBool, JSInt, ...)  *)
(* so that undefined, false, 0, NaN and "" stay distinct values.           *)
(***************************************************************************)
EXTENDS Integers, Sequences, FiniteSets, TLC

VARIABLES
    \* ---- command line (main / parseArgs / printHelp / run) ----
    argv,           \* process.argv.slice(2)
    main_pc,        \* "start" | "exited" | "running"
    exit_code,      \* argument of process.exit, -1 while the process has not exited
    stderr,         \* what printHelp wrote: the error record and the usage flag
    stopped_at,     \* value of the loop index i of parseArgs when it exited (1-based), 0 otherwise
    opts,           \* the global opts assigned by run()
    \* ---- one call of the handler handleStatic(opts) ----
    static_opts,    \* the StaticOpts the handler was built with
    static_pc,      \* "pending" | "done"
    static_res,     \* the ServerResponse given to the handler
    static_accessed,\* the paths the handler gave to fs.stat and fs.readFile
    \* ---- the running server ----
    listening,      \* the process is alive and the listener accepts requests
    sse_connections,\* the Map remoteAddress -> ServerResponse (index into conns)
    conns,          \* the /reload connections in order of arrival
    last,           \* the request handled last and what route did with it
    first_static,   \* history: the first request served by handleStatic and its
                    \* paths; JSNull in behaviours that do not keep this history
    watcher,        \* "off" | "watching" | "failed": the for-await loop of watch()
    log_errors,     \* history: calls of log.err
    is_timed_out,   \* closure variable of throttle
    is_timeout_active, \* closure variable of throttle; a timer is pending iff TRUE
    events,         \* history: change events delivered by the watcher
    cb_calls,       \* history: calls of the throttled callback
    timer_fires,    \* history: expiries of the throttle timer
    window_events   \* history: change events since the throttle was last idle

argsVars == <<argv, main_pc, exit_code, stderr, stopped_at, opts>>

staticVars == <<static_opts, static_pc, static_res, static_accessed>>

poolVars == <<listening, sse_connections, conns, last, first_static>>

throttleVars == <<watcher, log_errors, is_timed_out, is_timeout_active, events,
                  cb_calls, timer_fires, window_events>>

vars == <<argv, main_pc, exit_code, stderr, stopped_at, opts,
          static_opts, static_pc, static_res, static_accessed,
          listening, sse_connections, conns, last, first_static,
          watcher, log_errors, is_timed_out, is_timeout_active, events, cb_calls,
          timer_fires, window_events>>

----------------------------------------------------------------------------
(* Bounds *)

MaxArgs == 3
MaxPathLen == 5
MaxConns == 3
MaxReloadEvents == 2
MaxEvents == 6
MaxWatchConns == 2

----------------------------------------------------------------------------
(* JavaScript values *)

JSUndefined == [t |-> "undefined"]
JSNull      == [t |-> "null"]
JSNaN       == [t |-> "NaN"]
JSBool(b)   == [t |-> "boolean", b |-> b]
JSInt(n)    == [t |-> "number", n |-> n]
\* a finite number that is not an integer; only its integer part is kept
JSFrac(n)   == [t |-> "fraction", n |-> n]
JSStr(s)    == [t |-> "string", s |-> s]

\* ToBoolean of the language, as used by `if (value)` and `!value`
Truthy(v) ==
    CASE v.t = "undefined" -> FALSE
      [] v.t = "null"      -> FALSE
      [] v.t = "NaN"       -> FALSE
      [] v.t = "boolean"   -> v.b
      [] v.t = "number"    -> v.n # 0
      [] v.t = "fraction"  -> TRUE
      [] v.t = "string"    -> v.s # <<>>
      [] OTHER             -> TRUE

----------------------------------------------------------------------------
(* Strings *)

Digits == {"0", "1", "2", "3", "4", "5", "6", "7", "8", "9"}

DigitVal(c) ==
    CASE c = "0" -> 0 [] c = "1" -> 1 [] c = "2" -> 2 [] c = "3" -> 3
      [] c = "4" -> 4 [] c = "5" -> 5 [] c = "6" -> 6 [] c = "7" -> 7
      [] c = "8" -> 8 [] c = "9" -> 9 [] OTHER -> 0

LowerChar(c) ==
    CASE c = "A" -> "a" [] c = "H" -> "h" [] c = "P" -> "p"
      [] c = "W" -> "w" [] c = "V" -> "v" [] OTHER -> c

\* a conversion that keeps the case of every character
ToLowerCase_identity(s) == s

\* String.prototype.toLowerCase
ToLowerCase(s) == [j \in 1..Len(s) |-> LowerChar(s[j])]

\* String.prototype.startsWith
StartsWith(s, p) ==
    /\ Len(p) <= Len(s)
    /\ SubSeq(s, 1, Len(p)) = p

\* String.prototype.slice(n) for 0 <= n
Slice(s, n) == IF n >= Len(s) THEN <<>> ELSE SubSeq(s, n + 1, Len(s))

RECURSIVE DigitsToNat(_)
DigitsToNat(s) ==
    IF s = <<>> THEN 0
    ELSE 10 * DigitsToNat(SubSeq(s, 1, Len(s) - 1)) + DigitVal(s[Len(s)])

AllDigits(s) == s # <<>> /\ \A j \in 1..Len(s) : s[j] \in Digits

\* Number(string) for strings over letters, digits, "-", "+" and "." without
\* white space and without the words and prefixes Infinity, 0x, 0b, 0o, e:
\* "" is 0, [+-]digits is an integer, [+-]digits.digits a fraction, the rest NaN.
StrToNumber(s) ==
    LET signed == s # <<>> /\ s[1] \in {"-", "+"}
        sign   == IF signed /\ s[1] = "-" THEN -1 ELSE 1
        body   == IF signed THEN Slice(s, 1) ELSE s
        dots   == {j \in 1..Len(body) : body[j] = "."}
    IN  IF s = <<>> THEN JSInt(0)
        ELSE IF AllDigits(body) THEN JSInt(sign * DigitsToNat(body))
        ELSE IF /\ Cardinality(dots) = 1
                /\ LET d == CHOOSE j \in dots : TRUE
                   IN  /\ AllDigits(SubSeq(body, 1, d - 1))
                       /\ AllDigits(Slice(body, d))
             THEN LET d  == CHOOSE j \in dots : TRUE
                      ip == DigitsToNat(SubSeq(body, 1, d - 1))
                      fp == DigitsToNat(Slice(body, d))
                  IN  IF fp = 0 THEN JSInt(sign * ip) ELSE JSFrac(sign * ip)
        ELSE JSNaN

\* Number(v) of a value that is a string or undefined
Number(v) ==
    IF v.t = "string" THEN StrToNumber(v.s)
    ELSE JSNaN

\* Number.isInteger
NumberIsInteger(v) == v.t = "number"

----------------------------------------------------------------------------
(* <CLIParams> *)

\* TypedKeys(params_definition): the keys in declaration order
def_keys == <<"port", "verbose", "watch", "dirpath">>

\* params_definition with the boolean flags defaulting to false
params_definition_false_defaults ==
    [port    |-> [has_aliases |-> TRUE,
                  aliases |-> {<<"p", "o", "r", "t">>, <<"p">>},
                  has_position |-> FALSE, position |-> -1,
                  type |-> "number", default_value |-> JSInt(8080),
                  has_validate |-> TRUE],
     verbose |-> [has_aliases |-> TRUE,
                  aliases |-> {<<"v", "e", "r", "b", "o", "s", "e">>, <<"v">>},
                  has_position |-> FALSE, position |-> -1,
                  type |-> "boolean", default_value |-> JSBool(FALSE),
                  has_validate |-> FALSE],
     watch   |-> [has_aliases |-> TRUE,
                  aliases |-> {<<"w", "a", "t", "c", "h">>, <<"w">>},
                  has_position |-> FALSE, position |-> -1,
                  type |-> "boolean", default_value |-> JSBool(FALSE),
                  has_validate |-> FALSE],
     dirpath |-> [has_aliases |-> FALSE, aliases |-> {},
                  has_position |-> TRUE, position |-> 0,
                  type |-> "string", default_value |-> JSStr(<<".">>),
                  has_validate |-> FALSE]]

params_definition ==
    [port    |-> [has_aliases |-> TRUE,
                  aliases |-> {<<"p", "o", "r", "t">>, <<"p">>},
                  has_position |-> FALSE, position |-> -1,
                  type |-> "number", default_value |-> JSInt(8080),
                  has_validate |-> TRUE],
     verbose |-> [has_aliases |-> TRUE,
                  aliases |-> {<<"v", "e", "r", "b", "o", "s", "e">>, <<"v">>},
                  has_position |-> FALSE, position |-> -1,
                  type |-> "boolean", default_value |-> JSUndefined,
                  has_validate |-> FALSE],
     watch   |-> [has_aliases |-> TRUE,
                  aliases |-> {<<"w", "a", "t", "c", "h">>, <<"w">>},
                  has_position |-> FALSE, position |-> -1,
                  type |-> "boolean", default_value |-> JSUndefined,
                  has_validate |-> FALSE],
     dirpath |-> [has_aliases |-> FALSE, aliases |-> {},
                  has_position |-> TRUE, position |-> 0,
                  type |-> "string", default_value |-> JSStr(<<".">>),
                  has_validate |-> FALSE]]

\* the validate predicate of a definition; only port declares one
validate(def_key, v) ==
    IF def_key = "port" THEN NumberIsInteger(v) ELSE TRUE

\* cli_examples[1].options, as the shell splits it
ExampleArgv ==
    << <<"-", "p">>, <<"3", "0", "0", "0">>, <<"w", "w", "w">>,
       <<"-", "w", "a", "t", "c", "h">> >>

----------------------------------------------------------------------------
(* <CLIParamHelpers> *)

\* /tr?u?e?|ye?s?|1/i.test(s): the optional parts match the empty string
TruthyWordRegex(s) ==
    \E j \in 1..Len(s) : LowerChar(s[j]) \in {"t", "y", "1"}

parseArgValue(def, arg) ==
    CASE def.type = "string"  -> arg
      [] def.type = "number"  -> Number(arg)
      [] def.type = "boolean" ->
            JSBool(IF arg.t = "string" THEN TruthyWordRegex(arg.s) ELSE FALSE)
      [] OTHER -> JSNull

\* a help test that accepts the whole word only: /^--?help$/
HelpRegex_whole_word(s) ==
    s \in {<<"-", "h", "e", "l", "p">>, <<"-", "-", "h", "e", "l", "p">>}

\* /--?he?l?p?/.test(s): a "-", an optional second "-", then "h", anywhere in s
HelpRegex(s) ==
    \E j \in 1..Len(s) :
        /\ s[j] = "-"
        /\ \/ (j + 1 <= Len(s) /\ s[j + 1] = "h")
           \/ (j + 2 <= Len(s) /\ s[j + 1] = "-" /\ s[j + 2] = "h")

NoErr == [kind |-> "none", key |-> "", token |-> JSUndefined]
InvalidValueErr(def_key, tok) == [kind |-> "invalid", key |-> def_key, token |-> tok]
UnknownArgErr(tok) == [kind |-> "unknown", key |-> "", token |-> tok]

\* printHelp: writes the error (if any) and the usage text to stderr, then
\* process.exit(err ? 1 : 0); it never returns
printHelp(err, i) ==
    [exited |-> TRUE,
     code   |-> IF err.kind # "none" THEN 1 ELSE 0,
     stderr |-> [error |-> err, usage |-> TRUE],
     at     |-> i,
     config |-> JSUndefined]

\* argv[i] of the language (1-based here): undefined past the end
ArgAt(av, i) == IF i \in 1..Len(av) THEN JSStr(av[i]) ELSE JSUndefined

\* the inner loop `for (const def_key of def_keys)` from definition k on
RECURSIVE DefLoop(_, _, _, _, _, _, _)
DefLoop(av, arg, k, value, i, cp, res) ==
    IF k > Len(def_keys)
    THEN [outcome |-> "end", value |-> value, i |-> i, cp |-> cp, res |-> res,
          help |-> printHelp(NoErr, i)]
    ELSE
        LET def_key  == def_keys[k]
            def      == params_definition[def_key]
            isFlag   == StartsWith(arg, <<"-">>)
            aliasHit == isFlag /\ def.has_aliases /\ Slice(arg, 1) \in def.aliases
            posHit   == ~isFlag /\ def.has_position /\ def.position = cp
            i1       == IF aliasHit /\ def.type # "boolean" THEN i + 1 ELSE i
            value1   == IF aliasHit
                        THEN IF def.type = "boolean" THEN JSBool(TRUE)
                             ELSE parseArgValue(def, ArgAt(av, i1))
                        ELSE IF posHit THEN parseArgValue(def, JSStr(arg))
                        ELSE value
            cp1      == IF posHit THEN cp + 1 ELSE cp
        IN  IF Truthy(value1)
            THEN IF def.has_validate /\ ~validate(def_key, value1)
                 THEN [outcome |-> "exit", value |-> value1, i |-> i1, cp |-> cp1,
                       res |-> res,
                       help |-> printHelp(InvalidValueErr(def_key, ArgAt(av, i1)), i1)]
                 ELSE [outcome |-> "break", value |-> value1, i |-> i1, cp |-> cp1,
                       res |-> [res EXCEPT ![def_key] = value1],
                       help |-> printHelp(NoErr, i1)]
            ELSE DefLoop(av, arg, k + 1, value1, i1, cp1, res)

\* the outer loop `for (let i = 0; i < argv.length; i += 1)`, i is 1-based here
RECURSIVE ArgLoop(_, _, _, _)
ArgLoop(av, i, cp, res) ==
    IF i > Len(av)
    THEN [exited |-> FALSE, code |-> -1,
          stderr |-> [error |-> NoErr, usage |-> FALSE], at |-> 0, config |-> res]
    ELSE
        LET arg == ToLowerCase(av[i])
        IN  IF HelpRegex(arg) THEN printHelp(NoErr, i)
            ELSE LET d == DefLoop(av, arg, 1, JSNull, i, cp, res)
                 IN  IF d.outcome = "exit" THEN d.help
                     ELSE IF ~Truthy(d.value)
                     THEN printHelp(UnknownArgErr(ArgAt(av, d.i)), d.i)
                     ELSE ArgLoop(av, d.i + 1, d.cp, d.res)

parseArgs(av) ==
    ArgLoop(av, 1, 0, [k \in {def_keys[j] : j \in 1..Len(def_keys)} |->
                          params_definition[k].default_value])

----------------------------------------------------------------------------
(* Command lines the model runs the parser on *)

ArgTokens ==
    { <<"-", "p">>, <<"-", "p", "o", "r", "t">>,
      <<"3", "0", "0", "0">>, <<"w", "w", "w">>,
      <<"-", "w", "a", "t", "c", "h">>, <<"-", "W">>, <<"-", "v">>,
      <<"-", "h", "e", "l", "p">>, <<"-", "h">>,
      <<"-", "h", "x">>, <<"-", "x">>,
      <<"0">>, <<"-", "1">>, <<"3", ".", "5">>,
      <<"a", "-", "h">>, <<"W", "w", "w">> }

SeqsUpTo(S, n) == UNION {[1..m -> S] : m \in 0..n}

ArgvInputs == SeqsUpTo(ArgTokens, MaxArgs) \cup {ExampleArgv}

InitArgs ==
    /\ argv \in ArgvInputs
    /\ main_pc = "start"
    /\ exit_code = -1
    /\ stderr = [error |-> NoErr, usage |-> FALSE]
    /\ stopped_at = 0
    /\ opts = JSUndefined

\* the module imported as a library: main() does not call run
NoCommandLine ==
    /\ argv = << >>
    /\ main_pc = "start"
    /\ exit_code = -1
    /\ stderr = [error |-> NoErr, usage |-> FALSE]
    /\ stopped_at = 0
    /\ opts = JSUndefined

\* the globals no code has assigned yet, and no watcher
ServerNotStarted ==
    /\ listening = FALSE
    /\ sse_connections = JSUndefined
    /\ conns = << >>
    /\ last = JSUndefined
    /\ first_static = JSNull
    /\ watcher = "off"
    /\ log_errors = 0
    /\ is_timed_out = FALSE
    /\ is_timeout_active = FALSE
    /\ events = 0
    /\ cb_calls = 0
    /\ timer_fires = 0
    /\ window_events = 0

NoStaticCall ==
    /\ static_opts = JSUndefined
    /\ static_pc = "none"
    /\ static_res = JSUndefined
    /\ static_accessed = << >>

\* run(args): what it assigns and starts; listen() throws for a port outside
\* 0..65535, which ends the process
run(args) ==
    [opts |-> args,
     sse_connections |-> << >>,
     watcher |-> IF Truthy(args.watch) THEN "watching" ELSE "off",
     listening |-> args.port.t = "number" /\ args.port.n \in 0..65535]

\* main(): run(parseArgs(process.argv.slice(2))); parseArgs may exit the process
Main ==
    /\ main_pc = "start"
    /\ \E r \in {parseArgs(argv)} :
           /\ main_pc' = IF r.exited THEN "exited" ELSE "running"
           /\ exit_code' = r.code
           /\ stderr' = r.stderr
           /\ stopped_at' = r.at
           /\ IF r.exited
              THEN /\ opts' = opts
                   /\ UNCHANGED <<listening, sse_connections, watcher>>
              ELSE \E started \in {run(r.config)} :
                   /\ opts' = started.opts
                   /\ listening' = started.listening
                   /\ sse_connections' = started.sse_connections
                   /\ watcher' = started.watcher
    /\ UNCHANGED <<argv, conns, last, first_static, log_errors, is_timed_out,
                   is_timeout_active, events, cb_calls, timer_fires, window_events>>
    /\ UNCHANGED staticVars

----------------------------------------------------------------------------
(* Properties of the command line parser *)

Done == main_pc # "start"

FlagTok(name) == <<"-">> \o name

\* the tokens the interface table documents for a parameter, e.g. -p and -port
FlagTokensOf(def_key) == {FlagTok(a) : a \in params_definition[def_key].aliases}

HelpTokens == {<<"-", "h">>, <<"-", "h", "e", "l", "p">>}

AllFlagTokens ==
    UNION {FlagTokensOf(def_keys[j]) : j \in 1..Len(def_keys)}

\* parsing the tokens before index k alone returns a configuration
PrefixParses(k) == ~parseArgs(SubSeq(argv, 1, k - 1)).exited

\* the number of positional values the tokens before index k supply
PositionalsBefore(k) ==
    IF parseArgs(SubSeq(argv, 1, k - 1)).config.dirpath
          = params_definition.dirpath.default_value
    THEN 0 ELSE 1

C7_NonNumericPortNamesPort ==
    Done =>
       \A k \in 1..Len(argv) :
          ( /\ ToLowerCase(argv[k]) \in FlagTokensOf("port")
            /\ k + 1 <= Len(argv)
            /\ Number(JSStr(argv[k + 1])) = JSNaN
            /\ PrefixParses(k) )
          => /\ main_pc = "exited"
             /\ exit_code # 0
             /\ stderr.error.kind = "invalid"
             /\ stderr.error.key = "port"

\* C8 as claimed: a help token at any index gives usage and exit code 0
\* and nothing after it is processed.
C8_HelpAnywhereExitsZero ==
    Done =>
       \A k \in 1..Len(argv) :
          ToLowerCase(argv[k]) \in HelpTokens
          => /\ main_pc = "exited"
             /\ exit_code = 0
             /\ stderr.usage
             /\ stopped_at <= k

\* C8 amended: for every argument list with -help (or -h) at an index k such
\* that the tokens before k parse without exiting (none of them is invalid or
\* unknown and the help token is not taken as the value of -p), parseArgs
\* prints the usage text without an error, exits with code 0 and stops at
\* index k, so no token after the help token is processed.
C8_HelpReachedExitsZero ==
    Done =>
       \A k \in 1..Len(argv) :
          (ToLowerCase(argv[k]) \in HelpTokens /\ PrefixParses(k))
          => /\ main_pc = "exited"
             /\ exit_code = 0
             /\ stderr.usage
             /\ stderr.error = NoErr
             /\ stopped_at = k

C8_Witness ==
    /\ main_pc = "exited"
    /\ exit_code = 0
    /\ Len(argv) = 3
    /\ stopped_at = 2
    /\ argv[1] = <<"-", "W">>
    /\ argv[2] = <<"-", "h", "e", "l", "p">>
    /\ argv[3] = <<"-", "x">>

\* a token that matches no parameter definition, as C9 describes it
MatchesNoDefinition(tok, cp) ==
    LET a == ToLowerCase(tok)
    IN  IF StartsWith(a, <<"-">>)
        THEN a \notin AllFlagTokens /\ a \notin HelpTokens
        ELSE ~\E j \in 1..Len(def_keys) :
                 /\ params_definition[def_keys[j]].has_position
                 /\ params_definition[def_keys[j]].position = cp

\* C9: when the scan reaches a token that matches no parameter definition,
\* parseArgs prints usage with an error and exits with a non-zero code; it
\* neither exits 0 nor returns a configuration.
C9_UnmatchedTokenExitsNonZero ==
    Done =>
       \A k \in 1..Len(argv) :
          (PrefixParses(k) /\ MatchesNoDefinition(argv[k], PositionalsBefore(k)))
          => /\ main_pc = "exited"
             /\ exit_code # 0
             /\ stderr.error.kind # "none"

\* C18: whenever parseArgs returns a configuration, its port is a positive
\* integer and its verbose and watch are booleans.
C18_ConfigWellTyped ==
    main_pc = "running" =>
        /\ opts.port.t = "number"
        /\ opts.port.n > 0
        /\ opts.verbose.t = "boolean"
        /\ opts.watch.t = "boolean"

\* the scan reaches index k with a token that does not begin with "-" while
\* no positional value has been taken yet
FirstPositionalAt(k) ==
    /\ PrefixParses(k)
    /\ ~StartsWith(argv[k], <<"-">>)
    /\ PositionalsBefore(k) = 0

\* C22: the first token that does not begin with "-" is taken as dirpath,
\* whatever follows its first character, and the positional counter is
\* incremented (a later token without "-" finds no positional parameter);
\* the scan never stops at such a token to print help and exit.
C22_NonFlagTokenIsPositional ==
    Done =>
       \A k \in 1..Len(argv) :
          FirstPositionalAt(k)
          => /\ ~(main_pc = "exited" /\ stopped_at = k)
             /\ main_pc = "running" =>
                   opts.dirpath.t = "string" /\ Len(opts.dirpath.s) = Len(argv[k])
             /\ \A j \in (k + 1)..Len(argv) :
                   (PrefixParses(j) /\ ~StartsWith(argv[j], <<"-">>))
                   => /\ main_pc = "exited"
                      /\ stopped_at = j
                      /\ stderr.error.kind = "unknown"

\* the scan reaches -p (or -port) at index k and the next token converts to
\* an integer
PortIntegerAt(k) ==
    /\ ToLowerCase(argv[k]) \in FlagTokensOf("port")
    /\ k + 1 <= Len(argv)
    /\ NumberIsInteger(Number(JSStr(argv[k + 1])))
    /\ PrefixParses(k)

\* C23: when the scan reaches -p (or -port) followed by a token that converts
\* to an integer n, zero and negative integers included, parseArgs does not
\* exit at the flag or at its value, and the configuration returned has
\* port = n unless a later -p replaces it.
C23_IntegerPortIsStored ==
    Done =>
       \A k \in 1..Len(argv) :
          PortIntegerAt(k)
          => /\ ~(main_pc = "exited" /\ stopped_at \in {k, k + 1})
             /\ ( /\ main_pc = "running"
                  /\ \A j \in (k + 2)..Len(argv) :
                        ToLowerCase(argv[j]) \notin FlagTokensOf("port") )
                => opts.port = Number(JSStr(argv[k + 1]))

UpperCaseLetters == {"A", "H", "P", "W", "V"}

\* d is the lower-case form of the character c
IsLowerCaseOf(d, c) ==
    \/ c \notin UpperCaseLetters /\ d = c
    \/ c = "A" /\ d = "a"
    \/ c = "H" /\ d = "h"
    \/ c = "P" /\ d = "p"
    \/ c = "W" /\ d = "w"
    \/ c = "V" /\ d = "v"

\* C26: when parseArgs returns a configuration, the token taken as dirpath
\* is stored in lower case, character by character, so a token with an
\* upper-case letter is not stored as it was typed (Www gives "www"); and a
\* flag typed in upper case is matched like its lower-case alias (-W sets
\* watch and is not an unknown argument).
C26_TokensAreLowercased ==
    Done =>
       \A k \in 1..Len(argv) :
          /\ (main_pc = "running" /\ FirstPositionalAt(k))
             => /\ opts.dirpath.t = "string"
                /\ Len(opts.dirpath.s) = Len(argv[k])
                /\ \A j \in 1..Len(argv[k]) :
                      IsLowerCaseOf(opts.dirpath.s[j], argv[k][j])
                /\ argv[k] = <<"W", "w", "w">>
                      => /\ opts.dirpath = JSStr(<<"w", "w", "w">>)
                         /\ opts.dirpath # JSStr(argv[k])
          /\ (argv[k] = <<"-", "W">> /\ PrefixParses(k))
             => /\ main_pc = "exited" => stopped_at > k
                /\ main_pc = "running" => opts.watch = JSBool(TRUE)

C26_Witness ==
    /\ main_pc = "running"
    /\ argv = << <<"-", "W">>, <<"W", "w", "w">> >>
    /\ opts.watch = JSBool(TRUE)
    /\ opts.dirpath = JSStr(<<"w", "w", "w">>)

----------------------------------------------------------------------------
(* node:path, POSIX flavour *)

\* the segments of s between "/" separators, empty segments included
RECURSIVE SplitFrom(_, _, _)
SplitFrom(s, j, cur) ==
    IF j > Len(s) THEN <<cur>>
    ELSE IF s[j] = "/" THEN <<cur>> \o SplitFrom(s, j + 1, <<>>)
    ELSE SplitFrom(s, j + 1, Append(cur, s[j]))

Split(s) == SplitFrom(s, 1, <<>>)

RECURSIVE JoinSegs(_)
JoinSegs(segs) ==
    IF segs = <<>> THEN <<>>
    ELSE IF Len(segs) = 1 THEN segs[1]
    ELSE segs[1] \o <<"/">> \o JoinSegs(Tail(segs))

DotDot == <<".", ".">>

\* normalizeString of node:path: "" and "." segments are dropped, ".." removes
\* the segment before it, or stays when there is none and allowAboveRoot
RECURSIVE NormalizeSegs(_, _, _)
NormalizeSegs(segs, acc, allowAboveRoot) ==
    IF segs = <<>> THEN acc
    ELSE LET h == Head(segs)
             acc1 == IF h = <<>> \/ h = <<".">> THEN acc
                     ELSE IF h = DotDot
                     THEN IF acc # <<>> /\ acc[Len(acc)] # DotDot
                          THEN SubSeq(acc, 1, Len(acc) - 1)
                          ELSE IF allowAboveRoot THEN Append(acc, DotDot)
                          ELSE acc
                     ELSE Append(acc, h)
         IN  NormalizeSegs(Tail(segs), acc1, allowAboveRoot)

IsAbsolute(s) == s # <<>> /\ s[1] = "/"

\* path.normalize
normalize(s) ==
    IF s = <<>> THEN <<".">>
    ELSE LET isAbsolute == IsAbsolute(s)
             trailingSeparator == s[Len(s)] = "/"
             body == JoinSegs(NormalizeSegs(Split(s), <<>>, ~isAbsolute))
         IN  IF body = <<>>
             THEN IF isAbsolute THEN <<"/">>
                  ELSE IF trailingSeparator THEN <<".", "/">> ELSE <<".">>
             ELSE LET b1 == IF trailingSeparator THEN body \o <<"/">> ELSE body
                  IN  IF isAbsolute THEN <<"/">> \o b1 ELSE b1

\* path.join of two strings
join(a, b) ==
    IF a = <<>> /\ b = <<>> THEN <<".">>
    ELSE IF a = <<>> THEN normalize(b)
    ELSE IF b = <<>> THEN normalize(a)
    ELSE normalize(a \o <<"/">> \o b)

\* path.parse(p).ext: from the last "." of the base name, "" when the base has
\* no "." or only a leading one
Ext(p) ==
    LET segs == SelectSeq(Split(p), LAMBDA x : x # <<>>)
        base == IF segs = <<>> THEN <<>> ELSE segs[Len(segs)]
        dots == {j \in 1..Len(base) : base[j] = "."}
    IN  IF dots = {} \/ base = DotDot THEN <<>>
        ELSE LET d == CHOOSE j \in dots : \A k \in dots : k <= j
             IN  IF d = 1 THEN <<>> ELSE Slice(base, d - 1)

----------------------------------------------------------------------------
(* <RouteHandlers>: path resolution *)

\* String.prototype.replace(/^(\.\.[/\\])+/, "")
RECURSIVE StripLeadingParents(_)
StripLeadingParents(s) ==
    IF Len(s) >= 3 /\ s[1] = "." /\ s[2] = "." /\ s[3] \in {"/", "\\"}
    THEN StripLeadingParents(Slice(s, 3))
    ELSE s

sanitisePath(pathname) == StripLeadingParents(normalize(pathname))

\* prefix is a JS value: a string or undefined
getFilepath(pathname, prefix) ==
    IF Truthy(prefix)
    THEN IF StartsWith(pathname, prefix.s)
         THEN JSStr(sanitisePath(Slice(pathname, Len(prefix.s))))
         ELSE JSNull
    ELSE JSStr(sanitisePath(pathname))

----------------------------------------------------------------------------
(* The disk: node:fs/promises over a small directory tree *)

IndexHtml == <<"i", "n", "d", "e", "x", ".", "h", "t", "m", "l">>
HtmlExt   == <<".", "h", "t", "m", "l">>

\* the injected element of injectDevHTML, as one chunk of text
ReloadScript == "<script>new EventSource('/reload')...</script>"

\* file contents are sequences of chunks of text
PageWithHead    == <<"<html><head>", "</head>", "<body>root</body></html>">>
PageWithoutHead == <<"<html><body>no head</body></html>">>
PlainData       == <<"data">>
OutsideData     == <<"outside the serving root">>

Dir == [kind |-> "dir"]
File(d) == [kind |-> "file", data |-> d]

\* working directory of the process, as segments below "/"
Cwd == << <<"c">> >>

\* the directory tree, keyed by the segments of the absolute path
Disk ==
    ( << >> :> Dir ) @@
    ( << IndexHtml >> :> File(OutsideData) ) @@
    ( << <<"c">> >> :> Dir ) @@
    ( << <<"c">>, IndexHtml >> :> File(PageWithHead) ) @@
    ( << <<"c">>, <<"a">> >> :> Dir ) @@
    ( << <<"c">>, <<"a">>, <<"a">> >> :> File(PlainData) ) @@
    ( << <<"r">> >> :> Dir ) @@
    ( << <<"r">>, IndexHtml >> :> File(PageWithHead) ) @@
    ( << <<"r">>, <<"a">> >> :> Dir ) @@
    ( << <<"r">>, <<"a">>, IndexHtml >> :> File(PageWithoutHead) ) @@
    ( << <<"r">>, <<"a">>, <<"a">> >> :> File(PlainData) )

\* the absolute segments the operating system resolves a path to
DiskSegs(p) ==
    NormalizeSegs((IF IsAbsolute(p) THEN << >> ELSE Cwd) \o Split(p), << >>, FALSE)

Missing == [kind |-> "missing"]

\* what a system call finds at p; a trailing "/" on a file is ENOTDIR
DiskEntry(p) ==
    LET segs == DiskSegs(p)
    IN  IF segs \notin DOMAIN Disk THEN Missing
        ELSE IF Disk[segs].kind = "file" /\ p # << >> /\ p[Len(p)] = "/" THEN Missing
        ELSE Disk[segs]

\* fs.stat(p) throws exactly when it finds nothing
StatThrows(p) == DiskEntry(p).kind = "missing"
IsDirectory(p) == DiskEntry(p).kind = "dir"

\* fs.readFile(p) throws for a missing path and for a directory
ReadFileThrows(p) == DiskEntry(p).kind # "file"

----------------------------------------------------------------------------
(* <RouteHandlers>: responses and static files *)

\* a ServerResponse before the handler touched it
NewResponse ==
    [statusCode |-> 200, content_type |-> "", headers_sent |-> FALSE,
     written |-> << >>, body |-> << >>, ended |-> FALSE, destroyed |-> FALSE]

notFound(res, msg) ==
    [res EXCEPT !.statusCode = 404, !.body = msg, !.ended = TRUE]

mimeType ==
    ( <<".", "i", "c", "o">> :> "image/x-icon" ) @@
    ( <<".", "h", "t", "m", "l">> :> "text/html" ) @@
    ( <<".", "j", "s">> :> "text/javascript" ) @@
    ( <<".", "m", "j", "s">> :> "text/javascript" ) @@
    ( <<".", "j", "s", "o", "n">> :> "application/json" ) @@
    ( <<".", "c", "s", "s">> :> "text/css" ) @@
    ( <<".", "p", "n", "g">> :> "image/png" ) @@
    ( <<".", "j", "p", "g">> :> "image/jpeg" ) @@
    ( <<".", "w", "a", "v">> :> "audio/wav" ) @@
    ( <<".", "m", "p", "3">> :> "audio/mpeg" ) @@
    ( <<".", "s", "v", "g">> :> "image/svg+xml" ) @@
    ( <<".", "p", "d", "f">> :> "application/pdf" ) @@
    ( <<".", "z", "i", "p">> :> "application/zip" ) @@
    ( <<".", "d", "o", "c">> :> "application/msword" ) @@
    ( <<".", "e", "o", "t">> :> "application/vnd.ms-fontobject" ) @@
    ( <<".", "t", "t", "f">> :> "application/x-font-ttf" )

\* content.replace("</head>", script + "</head>"): the first occurrence only
injectDevHTML(buf) ==
    LET hits == {j \in 1..Len(buf) : buf[j] = "</head>"}
    IN  IF hits = {} THEN buf
        ELSE LET h == CHOOSE j \in hits : \A k \in hits : j <= k
             IN  SubSeq(buf, 1, h - 1) \o <<ReloadScript, "</head>">>
                     \o SubSeq(buf, h + 1, Len(buf))

NoTransforms == << >>
DevTransforms == HtmlExt :> "injectDevHTML"

NotFoundMsg(pathname) == <<"not found", pathname>>

\* a file() whose catch does not answer
file_silent_catch(res, pathname, transforms) ==
    LET ext == Ext(pathname)
    IN  IF ReadFileThrows(pathname)
        THEN [res |-> res, accessed |-> <<pathname>>]
        ELSE LET raw  == DiskEntry(pathname).data
                 data == IF ext \in DOMAIN transforms THEN injectDevHTML(raw) ELSE raw
             IN  [res |-> [res EXCEPT !.statusCode = 200,
                                      !.content_type =
                                          IF ext \in DOMAIN mimeType THEN mimeType[ext]
                                          ELSE "text/plain",
                                      !.body = data,
                                      !.ended = TRUE],
                  accessed |-> <<pathname>>]

\* file(res, pathname, transforms): the response and the paths it read
file(res, pathname, transforms) ==
    LET ext == Ext(pathname)
    IN  IF ReadFileThrows(pathname)
        THEN [res |-> notFound(res, NotFoundMsg(pathname)), accessed |-> <<pathname>>]
        ELSE LET raw  == DiskEntry(pathname).data
                 data == IF ext \in DOMAIN transforms THEN injectDevHTML(raw) ELSE raw
             IN  [res |-> [res EXCEPT !.statusCode = 200,
                                      !.content_type =
                                          IF ext \in DOMAIN mimeType THEN mimeType[ext]
                                          ELSE "text/plain",
                                      !.body = data,
                                      !.ended = TRUE],
                  accessed |-> <<pathname>>]

\* StaticOpts: directory and prefix are JS values (a string or undefined)
StaticOpts(pathname, prefix, directory, runtimeRouting, transforms) ==
    [pathname |-> pathname, prefix |-> prefix, directory |-> directory,
     runtimeRouting |-> runtimeRouting, transforms |-> transforms]

\* a static handler that reads the joined path as it is
handleStatic_no_index(o, res) ==
    LET fp == getFilepath(o.pathname, o.prefix)
    IN  IF ~Truthy(fp) THEN [res |-> res, accessed |-> << >>]
        ELSE
          LET dirpath  == IF o.directory.t = "string" THEN o.directory.s ELSE << >>
              filepath == join(dirpath, fp.s)
          IN  IF StatThrows(filepath)
              THEN IF o.runtimeRouting
                   THEN LET f == file(res, join(dirpath, IndexHtml), NoTransforms)
                        IN  [f EXCEPT !.accessed = <<filepath>> \o @]
                   ELSE [res |-> notFound(res, NotFoundMsg(filepath)),
                         accessed |-> <<filepath>>]
              ELSE LET f == file(res, filepath, o.transforms)
                   IN  [f EXCEPT !.accessed = <<filepath>> \o @]

\* the handler handleStatic(o) returns, applied to a fresh response
handleStatic(o, res) ==
    LET fp == getFilepath(o.pathname, o.prefix)
    IN  IF ~Truthy(fp) THEN [res |-> res, accessed |-> << >>]
        ELSE
          LET dirpath  == IF o.directory.t = "string" THEN o.directory.s ELSE << >>
              filepath == join(dirpath, fp.s)
          IN  IF StatThrows(filepath)
              THEN IF o.runtimeRouting
                   THEN LET f == file(res, join(dirpath, IndexHtml), NoTransforms)
                        IN  [f EXCEPT !.accessed = <<filepath>> \o @]
                   ELSE [res |-> notFound(res, NotFoundMsg(filepath)),
                         accessed |-> <<filepath>>]
              ELSE LET target == IF IsDirectory(filepath)
                                 THEN join(filepath, IndexHtml) ELSE filepath
                       f == file(res, target, o.transforms)
                   IN  [f EXCEPT !.accessed = <<filepath>> \o @]


----------------------------------------------------------------------------
(* One call of the static handler, on any path, prefix and directory *)

PathAlphabet == {"/", ".", "a", "\\"}

PathInputs == SeqsUpTo(PathAlphabet, MaxPathLen)

\* `prefix` of StaticOpts: absent, or the string "/a"
PrefixInputs == {JSUndefined, JSStr(<<"/", "a">>)}

\* `directory` of StaticOpts: absent, the default dirpath ".", or "/r"
DirectoryInputs == {JSUndefined, JSStr(<<".">>), JSStr(<<"/", "r">>)}

InitStatic ==
    /\ static_opts \in
          {StaticOpts(pn, pr, d, rr, tr) :
              pn \in PathInputs, pr \in PrefixInputs, d \in DirectoryInputs,
              rr \in BOOLEAN, tr \in {NoTransforms, DevTransforms}}
    /\ static_pc = "pending"
    /\ static_res = NewResponse
    /\ static_accessed = << >>

ServeStatic ==
    /\ static_pc = "pending"
    /\ \E r \in {handleStatic(static_opts, static_res)} :
           /\ static_res' = r.res
           /\ static_accessed' = r.accessed
    /\ static_pc' = "done"
    /\ UNCHANGED static_opts
    /\ UNCHANGED <<argsVars, poolVars, throttleVars>>

\* the serving root as the operating system resolves it
RootSegs(o) ==
    DiskSegs(IF o.directory.t = "string" THEN o.directory.s ELSE << >>)

IsPrefixSeq(a, b) == Len(a) <= Len(b) /\ SubSeq(b, 1, Len(a)) = a

\* p is the root or a descendant of the root
WithinRoot(o, p) == IsPrefixSeq(RootSegs(o), DiskSegs(p))

\* C1: every path the static handler gives to the disk (the joined path, and
\* the index.html it is re-resolved to) is the serving root or a descendant
\* of it, for every path, every prefix and every configured directory.
C1_ResolvedPathWithinRoot ==
    (static_pc = "done" /\ static_opts.directory.t = "string") =>
        \A j \in 1..Len(static_accessed) : WithinRoot(static_opts, static_accessed[j])

\* the path the options of the call resolve to: directory joined with the
\* sanitised pathname
StaticJoined ==
    join(IF static_opts.directory.t = "string" THEN static_opts.directory.s
         ELSE << >>,
         getFilepath(static_opts.pathname, static_opts.prefix).s)

\* the call was made on a path that resolves to a directory that contains
\* index.html
ResolvedToDirectoryWithIndex ==
    /\ static_pc = "done"
    /\ Truthy(getFilepath(static_opts.pathname, static_opts.prefix))
    /\ IsDirectory(StaticJoined)
    /\ DiskEntry(join(StaticJoined, IndexHtml)).kind = "file"

\* the content of the index.html of the directory the call resolved to
IndexContent == DiskEntry(join(StaticJoined, IndexHtml)).data

WithoutScript(body) ==
    LET keep(chunk) == chunk # ReloadScript IN SelectSeq(body, keep)

PrefixMismatch ==
    /\ static_pc = "done"
    /\ static_opts.prefix.t = "string"
    /\ static_opts.prefix.s # << >>
    /\ ~StartsWith(static_opts.pathname, static_opts.prefix.s)

\* C21: with a non-empty prefix configured and a request path that does not
\* start with it, getFilepath yields no path and the handler answers with a
\* 404 that ends the response; the request is not left unanswered.
C21_PrefixMismatchIsNotFound ==
    PrefixMismatch =>
        /\ getFilepath(static_opts.pathname, static_opts.prefix) = JSNull
        /\ static_res.statusCode = 404
        /\ static_res.ended

----------------------------------------------------------------------------
(* WHATWG URL: new URL(req.url, "http://localhost").pathname *)

\* the part of s before the first "?" or "#"
RECURSIVE BeforeQuery(_)
BeforeQuery(s) ==
    IF s = << >> \/ s[1] \in {"?", "#"} THEN << >>
    ELSE <<s[1]>> \o BeforeQuery(Tail(s))

\* the path state of the URL parser: ".." removes the segment before it, "."
\* is dropped, and either of them in last place leaves an empty last segment
RECURSIVE UrlPathSegs(_, _)
UrlPathSegs(segs, acc) ==
    IF segs = << >> THEN acc
    ELSE LET h == Head(segs)
             isLast == Len(segs) = 1
             acc1 == IF h = DotDot
                     THEN LET popped == IF acc = << >> THEN acc
                                        ELSE SubSeq(acc, 1, Len(acc) - 1)
                          IN  IF isLast THEN Append(popped, << >>) ELSE popped
                     ELSE IF h = <<".">>
                     THEN IF isLast THEN Append(acc, << >>) ELSE acc
                     ELSE Append(acc, h)
         IN  UrlPathSegs(Tail(segs), acc1)

UrlThrows == [t |-> "TypeError"]

\* for request targets over letters, digits, ".", "/", "?" and "#": a target
\* "//host/path" names a host, and an empty host is a TypeError
URLPathname(u) ==
    LET noq == BeforeQuery(u)
    IN  IF StartsWith(noq, <<"/", "/">>)
        THEN LET rest == Slice(noq, 2)
                 segs == Split(rest)
             IN  IF segs[1] = << >> THEN UrlThrows
                 ELSE JSStr(<<"/">> \o JoinSegs(UrlPathSegs(
                                IF Len(segs) = 1 THEN << << >> >> ELSE Tail(segs), << >>)))
        ELSE LET rel == IF IsAbsolute(noq) THEN Slice(noq, 1) ELSE noq
             IN  JSStr(<<"/">> \o JoinSegs(UrlPathSegs(Split(rel), << >>)))

----------------------------------------------------------------------------
(* <RouteHandlers>: live reload, API, route *)

ReloadMsg == "data: reload\n\n"

\* sse_connections is a Map: its entries in insertion order, the value of an
\* entry being the index of the connection in conns
MapHas(registry, key) == \E j \in 1..Len(registry) : registry[j].key = key

\* Map.prototype.set: a key already present keeps its place
MapSet(registry, key, value) ==
    IF MapHas(registry, key)
    THEN [j \in 1..Len(registry) |->
             IF registry[j].key = key THEN [key |-> key, value |-> value]
             ELSE registry[j]]
    ELSE Append(registry, [key |-> key, value |-> value])

\* SSERegister: the Map entry it sets and the response after writeHead; the
\* close listener it registers is the action Close
SSERegister(req, res, registry) ==
    [registry |-> MapSet(registry, req.remoteAddress, req.conn),
     res |-> [res EXCEPT !.statusCode = 200,
                         !.content_type = "text/event-stream",
                         !.headers_sent = TRUE]]

\* a write that throws into its caller when the stream is stale
write_throws_on_stale(res) ==
    IF res.ended \/ res.destroyed
    THEN [res |-> res, threw |-> TRUE, uncaught |-> FALSE]
    ELSE [res |-> [res EXCEPT !.written = Append(@, ReloadMsg)],
          threw |-> FALSE, uncaught |-> FALSE]

\* res.write(msg) of a ServerResponse: after end() the error is emitted as
\* an 'error' event on a later tick (no listener: an uncaught exception); on
\* a destroyed stream the chunk is dropped; it never throws into the caller
write(res) ==
    IF res.ended
    THEN [res |-> res, threw |-> FALSE, uncaught |-> TRUE]
    ELSE IF res.destroyed
    THEN [res |-> res, threw |-> FALSE, uncaught |-> FALSE]
    ELSE [res |-> [res EXCEPT !.written = Append(@, ReloadMsg)],
          threw |-> FALSE, uncaught |-> FALSE]

\* the forEach of SSESendReload over the entries left: a throw ends it
RECURSIVE SendLoop(_, _, _)
SendLoop(entries, cs, uncaught) ==
    IF entries = << >> THEN [conns |-> cs, threw |-> FALSE, uncaught |-> uncaught]
    ELSE LET c == Head(entries).value
             w == write(cs[c].res)
         IN  IF w.threw THEN [conns |-> cs, threw |-> TRUE, uncaught |-> uncaught]
             ELSE SendLoop(Tail(entries), [cs EXCEPT ![c].res = w.res],
                           uncaught \/ w.uncaught)

\* SSESendReload: res.write(msg) on every response in the Map, in Map order
SSESendReload(registry, cs) == SendLoop(registry, cs, FALSE)

ApiPrefix == <<"/", "a", "p", "i", "/">>

\* APIPathRegex.exec(pathname): [version, pathname] of /^\/api\/(\d+)(.*)$/,
\* or no match
APIPathRegex(pathname) ==
    IF ~StartsWith(pathname, ApiPrefix) THEN [matched |-> FALSE]
    ELSE LET rest == Slice(pathname, Len(ApiPrefix))
             nd == CHOOSE n \in 0..Len(rest) :
                      /\ \A j \in 1..n : rest[j] \in Digits
                      /\ (n < Len(rest) => rest[n + 1] \notin Digits)
         IN  IF nd = 0 THEN [matched |-> FALSE]
             ELSE [matched |-> TRUE, version |-> SubSeq(rest, 1, nd),
                   pathname |-> Slice(rest, nd)]

\* the handler handleAPI({pathname}) returns, applied to res
handleAPI(o, res) ==
    LET m == APIPathRegex(o.pathname)
    IN  IF ~m.matched \/ ~StartsWith(m.pathname, <<"/">>)
        THEN notFound(res, <<"Invalid API endpoint">>)
        ELSE res

\* a route whose serving root depends on the Map
route_root_by_registry(req, res, o, registry) ==
    IF req.url.t # "string" \/ URLPathname(req.url.s) = UrlThrows
    THEN [threw |-> FALSE, handler |-> "notFound", registry |-> registry,
          res |-> notFound(res, <<"No URL">>), accessed |-> << >>]
    ELSE IF URLPathname(req.url.s).s = <<"/", "r", "e", "l", "o", "a", "d">>
    THEN LET r == SSERegister(req, res, registry)
         IN  [threw |-> FALSE, handler |-> "SSERegister",
              registry |-> r.registry, res |-> r.res, accessed |-> << >>]
    ELSE LET r == handleStatic(
                     StaticOpts(URLPathname(req.url.s).s, JSUndefined,
                                IF registry = << >> THEN o.dirpath
                                ELSE JSStr(<<"/">>),
                                FALSE, NoTransforms), res)
         IN  [threw |-> FALSE, handler |-> "handleStatic",
              registry |-> registry, res |-> r.res, accessed |-> r.accessed]

\* route(req, res): the handler chosen, the response it leaves, the Map
route(req, res, o, registry) ==
    IF req.url.t # "string"
    THEN [threw |-> FALSE, handler |-> "notFound", registry |-> registry,
          res |-> notFound(res, <<"No URL">>), accessed |-> << >>]
    ELSE LET pn == URLPathname(req.url.s)
         IN  IF pn = UrlThrows
             THEN [threw |-> TRUE, handler |-> "none", registry |-> registry,
                   res |-> res, accessed |-> << >>]
             ELSE IF pn.s = <<"/", "r", "e", "l", "o", "a", "d">>
             THEN LET r == SSERegister(req, res, registry)
                  IN  [threw |-> FALSE, handler |-> "SSERegister",
                       registry |-> r.registry, res |-> r.res, accessed |-> << >>]
             ELSE IF StartsWith(pn.s, <<"/", "a", "p", "i">>)
             THEN [threw |-> FALSE, handler |-> "handleAPI", registry |-> registry,
                   res |-> handleAPI([pathname |-> pn.s], res), accessed |-> << >>]
             ELSE IF StartsWith(pn.s, <<"/">>)
             THEN LET r == handleStatic(
                              StaticOpts(pn.s, JSUndefined, o.dirpath, FALSE,
                                         IF Truthy(o.watch) THEN DevTransforms
                                         ELSE NoTransforms), res)
                  IN  [threw |-> FALSE, handler |-> "handleStatic",
                       registry |-> registry, res |-> r.res, accessed |-> r.accessed]
             ELSE [threw |-> FALSE, handler |-> "notFound", registry |-> registry,
                   res |-> notFound(res, <<"Unmatched pathname">>), accessed |-> << >>]

----------------------------------------------------------------------------
(* <Throttle> *)

\* a throttle that forgets to test is_timed_out
throttledCB_no_test(timed_out, timeout_active) ==
    [calls_cb |-> TRUE, is_timed_out |-> TRUE, is_timeout_active |-> TRUE]

\* a throttle that calls cb for the events inside the window only
throttledCB_in_window(timed_out, timeout_active) ==
    [calls_cb |-> timed_out, is_timed_out |-> TRUE, is_timeout_active |-> TRUE]

\* one call of the function throttle(ms, cb) returns: whether cb is called,
\* the closure variables afterwards
throttledCB(timed_out, timeout_active) ==
    IF ~timed_out
    THEN [calls_cb |-> TRUE, is_timed_out |-> TRUE, is_timeout_active |-> TRUE]
    ELSE [calls_cb |-> FALSE, is_timed_out |-> timed_out,
          is_timeout_active |-> timeout_active]

\* a timer callback that clears is_timeout_active only
timerCallback_keeps_timed_out == [is_timed_out |-> TRUE, is_timeout_active |-> FALSE]

\* the setTimeout callback of throttle
timerCallback == [is_timed_out |-> FALSE, is_timeout_active |-> FALSE]

----------------------------------------------------------------------------
(* The running server: requests, connection closes, change events, timer *)

Addrs == {"127.0.0.1", "::1"}

ReloadUrl == <<"/", "r", "e", "l", "o", "a", "d">>

\* request targets (req.url); JSUndefined is a request without a URL
UrlInputs ==
    {JSUndefined} \cup
    { JSStr(<<"/", "r", "e", "l", "o", "a", "d">>),
      JSStr(<<"/", "r", "e", "l", "o", "a", "d", "?", "v">>),
      JSStr(<<"/", "a", "p", "i", "/", "1", "/", "x">>),
      JSStr(<<"/", "a", "p", "i", "/", "1", "2", "/">>),
      JSStr(<<"/", "a", "p", "i", "/", "1">>),
      JSStr(<<"/", "a", "p", "i", "/", "x", "/", "y">>),
      JSStr(<<"/", "a", "p", "i">>),
      JSStr(<<"/">>),
      JSStr(<<"/", "a">>),
      JSStr(<<"/", "a", "/">>),
      JSStr(<<"/", "a", "/", "a">>),
      JSStr(<<"/", "a", "/", "a", "/">>),
      JSStr(<<"/", "i", "n", "d", "e", "x", ".", "h", "t", "m", "l">>),
      JSStr(<<"/", "b">>),
      JSStr(<<"/", ".", ".", "/", "i", "n", "d", "e", "x", ".", "h", "t", "m", "l">>),
      JSStr(<<"/", "a", "/", ".", ".", "/", ".", ".">>),
      JSStr(<<"/", "/">>),
      JSStr(<<"/", "/", "h", "/", "a">>),
      JSStr(<<"a">>) }

\* command lines that start the server
WatchArgv  == << <<"-", "w">> >>
\* command lines that start the server with the watcher on
WatchArgvInputs ==
    { WatchArgv, << <<"-", "W">> >>, << <<"-", "w", "a", "t", "c", "h">> >>,
      << <<"-", "w">>, <<"/", "r">> >> }

ServerArgvInputs ==
    { << >>, WatchArgv, << <<"/", "r">> >>, << <<"-", "w", "a", "t", "c", "h">>, <<"/", "r">> >> }

\* the state run() leaves, for a command line that parseArgs accepts
InitServer(argvs) ==
    /\ argv \in argvs
    /\ \E r \in {parseArgs(argv)} :
           /\ ~r.exited
           /\ \E started \in {run(r.config)} :
                  /\ opts = started.opts
                  /\ listening = started.listening
                  /\ sse_connections = started.sse_connections
                  /\ watcher = started.watcher
    /\ main_pc = "running"
    /\ exit_code = -1
    /\ stderr = [error |-> NoErr, usage |-> FALSE]
    /\ stopped_at = 0
    /\ conns = << >>
    /\ last = JSUndefined
    /\ log_errors = 0
    /\ is_timed_out = FALSE
    /\ is_timeout_active = FALSE
    /\ events = 0
    /\ cb_calls = 0
    /\ timer_fires = 0
    /\ window_events = 0

\* the listener: logRequestMiddleware(route) on one request; a rejected
\* promise of the handler is an unhandled rejection, which ends the process
Request(url, addr) ==
    /\ listening
    /\ \E r \in {route([url |-> url, remoteAddress |-> addr, conn |-> Len(conns) + 1],
                       NewResponse, opts, sse_connections)} :
           /\ r.handler = "SSERegister" => Len(conns) < MaxConns
           /\ listening' = ~r.threw
           /\ sse_connections' = r.registry
           /\ conns' = IF r.handler = "SSERegister"
                       THEN Append(conns, [remoteAddress |-> addr, open |-> TRUE,
                                           res |-> r.res])
                       ELSE conns
           /\ last' = [url |-> url, remoteAddress |-> addr, handler |-> r.handler,
                       threw |-> r.threw, res |-> r.res, accessed |-> r.accessed,
                       watcher |-> watcher]
           /\ first_static' =
                  IF first_static = JSUndefined /\ r.handler = "handleStatic"
                  THEN [url |-> url, remoteAddress |-> addr,
                        accessed |-> r.accessed, conns |-> Len(conns)]
                  ELSE first_static
    /\ UNCHANGED <<argsVars, staticVars, throttleVars>>

RequestAny == \E url \in UrlInputs, addr \in Addrs : Request(url, addr)

RequestReload == \E addr \in Addrs : Request(JSStr(ReloadUrl), addr)

\* requests of a page under live reload: the stream from either address,
\* the page, and a target the URL parser rejects
WatchRequests ==
    { <<JSStr(ReloadUrl), "127.0.0.1">>, <<JSStr(ReloadUrl), "::1">>,
      <<JSStr(<<"/">>), "127.0.0.1">>, <<JSStr(<<"/", "/">>), "127.0.0.1">> }

\* a reload stream is opened, from either address
RequestStream ==
    \E addr \in Addrs :
        /\ Len(conns) < MaxWatchConns
        /\ Request(JSStr(ReloadUrl), addr)

\* request targets that route gives to handleStatic: a directory, a file
\* below it, a path with parent segments, a missing file
StaticUrlInputs ==
    { JSStr(<<"/", "a">>),
      JSStr(<<"/", "a", "/", "a">>),
      JSStr(<<"/", "a", "/", ".", ".", "/", ".", ".">>),
      JSStr(<<"/", "b">>) }

RequestStatic == \E url \in StaticUrlInputs, addr \in Addrs : Request(url, addr)

RequestWatched ==
    \E rq \in WatchRequests :
        /\ rq[1] = JSStr(ReloadUrl) => Len(conns) < MaxWatchConns
        /\ Request(rq[1], rq[2])

\* a delete that removes nothing
MapDelete_noop(registry, key) == registry

\* Map.prototype.delete
MapDelete(registry, key) ==
    LET keep(e) == e.key # key IN SelectSeq(registry, keep)

\* the "close" listener SSERegister put on the request of connection c
Close(c) ==
    /\ listening
    /\ c \in 1..Len(conns)
    /\ conns[c].open
    /\ sse_connections' = MapDelete(sse_connections, conns[c].remoteAddress)
    /\ conns' = [conns EXCEPT ![c].open = FALSE,
                              ![c].res.body = <<"closed">>,
                              ![c].res.ended = TRUE]
    /\ UNCHANGED <<listening, last, first_static>>
    /\ UNCHANGED <<argsVars, staticVars, throttleVars>>

CloseAny == \E c \in 1..MaxConns : Close(c)

\* the socket of connection c is gone and the "close" event of its request
\* has not been delivered yet: the response is still in the Map
SocketBreak(c) ==
    /\ listening
    /\ c \in 1..Len(conns)
    /\ conns[c].open
    /\ ~conns[c].res.destroyed
    /\ conns' = [conns EXCEPT ![c].res.destroyed = TRUE]
    /\ UNCHANGED <<listening, sse_connections, last, first_static>>
    /\ UNCHANGED <<argsVars, staticVars, throttleVars>>

SocketBreakAny == \E c \in 1..MaxConns : SocketBreak(c)

\* cb was not called: nothing written, nothing thrown
NoBroadcast(cs) == [conns |-> cs, threw |-> FALSE, uncaught |-> FALSE]

\* one turn of the loop of watch(): the watcher yields an event and the
\* throttled SSESendReload is called; an exception out of cb leaves the
\* throttle before it arms its timer and ends the loop in the catch of watch
WatchEvent(limit) ==
    /\ listening
    /\ watcher = "watching"
    /\ events < limit
    /\ \E t \in {throttledCB(is_timed_out, is_timeout_active)} :
       \E b \in {IF t.calls_cb THEN SSESendReload(sse_connections, conns)
                            ELSE NoBroadcast(conns)} :
           /\ is_timed_out' = t.is_timed_out
           /\ is_timeout_active' = IF b.threw THEN is_timeout_active
                                   ELSE t.is_timeout_active
           /\ cb_calls' = IF t.calls_cb THEN cb_calls + 1 ELSE cb_calls
           /\ conns' = b.conns
           /\ watcher' = IF b.threw THEN "failed" ELSE watcher
           /\ log_errors' = IF b.threw THEN log_errors + 1 ELSE log_errors
           /\ listening' = ~b.uncaught
    /\ events' = events + 1
    /\ window_events' = IF is_timed_out THEN window_events + 1 ELSE 1
    /\ UNCHANGED <<timer_fires, sse_connections, last, first_static>>
    /\ UNCHANGED <<argsVars, staticVars>>

\* a watcher failure that nothing catches
WatcherFail_uncaught ==
    /\ listening
    /\ watcher = "watching"
    /\ watcher' = "failed"
    /\ listening' = FALSE
    /\ UNCHANGED <<log_errors, is_timed_out, is_timeout_active, events, cb_calls,
                   timer_fires, window_events>>
    /\ UNCHANGED <<argsVars, staticVars, sse_connections, conns, last, first_static>>

\* the watcher throws (fs.watch fails, or the iterator rejects): the catch
\* of watch() logs the error and watch() returns
WatcherFail ==
    /\ listening
    /\ watcher = "watching"
    /\ watcher' = "failed"
    /\ log_errors' = log_errors + 1
    /\ UNCHANGED <<is_timed_out, is_timeout_active, events, cb_calls,
                   timer_fires, window_events>>
    /\ UNCHANGED <<argsVars, staticVars, poolVars>>

\* a timer callback with a trailing call: cb runs when the window closes
\* if events were dropped in it
TimerFire_trailing_call ==
    /\ listening
    /\ is_timeout_active
    /\ is_timed_out' = timerCallback.is_timed_out
    /\ is_timeout_active' = timerCallback.is_timeout_active
    /\ timer_fires' = timer_fires + 1
    /\ window_events' = 0
    /\ \E b \in {IF window_events > 1 THEN SSESendReload(sse_connections, conns)
                                        ELSE NoBroadcast(conns)} :
           /\ conns' = b.conns
           /\ cb_calls' = IF window_events > 1 THEN cb_calls + 1 ELSE cb_calls
    /\ UNCHANGED <<watcher, log_errors, events>>
    /\ UNCHANGED <<argsVars, staticVars, listening, sse_connections, last, first_static>>

\* the timer set by throttle expires
TimerFire ==
    /\ listening
    /\ is_timeout_active
    /\ is_timed_out' = timerCallback.is_timed_out
    /\ is_timeout_active' = timerCallback.is_timeout_active
    /\ timer_fires' = timer_fires + 1
    /\ window_events' = 0
    /\ UNCHANGED <<watcher, log_errors, events, cb_calls>>
    /\ UNCHANGED <<argsVars, staticVars, poolVars>>

----------------------------------------------------------------------------
(* Properties of live reload *)

\* the response of connection c is a value of the Map
Stored(c) == \E j \in 1..Len(sse_connections) : sse_connections[j].value = c

\* C2: a reload connection's response is stored in sse_connections if and
\* only if that connection is currently open.
C2_StoredIffOpen ==
    \A c \in 1..Len(conns) : Stored(c) <=> conns[c].open

\* a step in which SSESendReload runs
Broadcasts == cb_calls' = cb_calls + 1

\* C3: with two clients registered, a broadcast writes exactly one reload
\* message to each client that is still open and nothing to a closed one,
\* whatever the remote addresses of the two clients.
C3_BroadcastReachesOpenClients ==
    [][(Broadcasts /\ Len(conns) = 2) =>
          \A c \in 1..2 :
             conns'[c].res.written =
                IF conns[c].open THEN Append(conns[c].res.written, ReloadMsg)
                ELSE conns[c].res.written]_vars

\* C24: whatever the order of registrations and closes, with shared remote
\* addresses or not, every response held in sse_connections belongs to a
\* connection whose close listener has not run, so it has not been ended; a
\* broadcast therefore writes to no ended stream: the responses of closed
\* connections keep what was written to them and no write fails.
C24_RegistryHoldsOnlyOpen ==
    /\ [](\A j \in 1..Len(sse_connections) :
             /\ sse_connections[j].value \in 1..Len(conns)
             /\ conns[sse_connections[j].value].open
             /\ ~conns[sse_connections[j].value].res.ended)
    /\ [][Broadcasts =>
             /\ listening'
             /\ \A c \in 1..Len(conns) :
                   ~conns[c].open => conns'[c].res = conns[c].res]_vars

\* two streams from one address and a third from another; the first closed
\* (its delete removed the entry of the second), then a broadcast reached
\* the only response left in the Map
C24_Witness ==
    /\ Len(conns) = 3
    /\ conns[1].remoteAddress = conns[2].remoteAddress
    /\ conns[3].remoteAddress # conns[1].remoteAddress
    /\ ~conns[1].open /\ conns[1].res.ended
    /\ conns[2].open /\ conns[3].open
    /\ Len(sse_connections) = 1
    /\ sse_connections[1].value = 3
    /\ cb_calls = 1
    /\ conns[1].res.written = << >>
    /\ conns[3].res.written = <<ReloadMsg>>

----------------------------------------------------------------------------
(* Properties of the throttle *)

\* a step in which the watcher delivers a change event
ChangeEventStep == events' = events + 1

\* cooldown windows opened so far: the expired ones and the open one
WindowsOpened == timer_fires + (IF is_timeout_active THEN 1 ELSE 0)

\* C4: a change event arriving while the throttle is idle calls cb in that
\* same step and opens a cooldown (with its timer); a change event arriving
\* while the cooldown is open calls cb zero times; so cb is never called
\* more often than cooldown windows were opened.
C4_OncePerCooldown ==
    /\ [][ChangeEventStep =>
            IF ~is_timed_out
            THEN cb_calls' = cb_calls + 1 /\ is_timed_out' /\ is_timeout_active'
            ELSE cb_calls' = cb_calls /\ is_timed_out']_vars
    /\ [](cb_calls <= WindowsOpened)

C4_Witness ==
    /\ is_timed_out
    /\ window_events = 3
    /\ cb_calls = 1
    /\ events = 3

\* C5: every cooldown eventually elapses and leaves the throttle idle; the
\* first change event after that calls cb again in its own step; the number
\* of cb calls is exactly the number of cooldown windows opened (five events
\* in one window: one call; a sixth after the window elapsed: a second call).
C5_CooldownElapses ==
    /\ (is_timed_out ~> ~is_timed_out)
    /\ [][(ChangeEventStep /\ timer_fires > 0 /\ window_events = 0) =>
             cb_calls' = cb_calls + 1]_vars
    /\ [](cb_calls = WindowsOpened)
    /\ []((events = 5 /\ timer_fires = 0) => cb_calls = 1)
    /\ []((events = 6 /\ timer_fires = 1 /\ window_events = 1) => cb_calls = 2)

C5_Witness ==
    /\ events = 6
    /\ timer_fires = 1
    /\ window_events = 1
    /\ cb_calls = 2
    /\ is_timed_out

\* C20 as stated: every call of the throttled callback happens after the
\* window of the triggering change event has closed: not in the step of the
\* event itself, and with no window open.
C20_CallbackAfterWindowCloses ==
    [][Broadcasts => (~ChangeEventStep /\ ~is_timed_out')]_vars

\* C20 amended: every call of the throttled callback happens in the step of
\* a change event that finds the throttle idle, and that same step opens
\* the window of the event (flag and timer); no call happens while a window
\* opened earlier is open, and none when the timer expires.
C20_CallbackAtWindowOpening ==
    /\ [][Broadcasts =>
             /\ ChangeEventStep
             /\ ~is_timed_out /\ ~is_timeout_active
             /\ is_timed_out' /\ is_timeout_active'
             /\ window_events' = 1
             /\ timer_fires' = timer_fires]_vars
    /\ [][timer_fires' # timer_fires =>
             (cb_calls' = cb_calls /\ ~is_timed_out')]_vars

\* the second call, made by the first event after the first window closed
C20_Witness ==
    /\ events = 2
    /\ cb_calls = 2
    /\ timer_fires = 1
    /\ window_events = 1
    /\ is_timeout_active

\* the last change event arrived during a cooldown and was dropped
LastEventDropped == window_events >= 2

\* C25: the throttle makes no trailing call. cb is called only in the step
\* of a change event that finds the throttle idle; the expiry of the timer
\* calls nothing and writes to no client; so once a change event was dropped
\* in a cooldown, the number of broadcasts stays what it was for as long as
\* no further change event arrives, the expiry of the cooldown included.
C25_NoTrailingCall ==
    /\ [][cb_calls' # cb_calls => (ChangeEventStep /\ ~is_timed_out)]_vars
    /\ [][timer_fires' # timer_fires =>
             (cb_calls' = cb_calls /\ conns' = conns /\ events' = events)]_vars
    /\ \A n \in 0..MaxEvents, e \in 0..MaxEvents :
          []((LastEventDropped /\ cb_calls = n /\ events = e)
                => [](events = e => cb_calls = n))

\* an event was dropped in the first window, the window has closed and no
\* call followed
C25_Witness ==
    /\ events = 2
    /\ cb_calls = 1
    /\ timer_fires = 1
    /\ window_events = 0
    /\ ~is_timed_out
    /\ ~is_timeout_active

----------------------------------------------------------------------------
(* Properties of the routes *)

Handled == last # JSUndefined

\* the request handled last has a path in the API namespace
LastInApiNamespace ==
    /\ Handled
    /\ last.url.t = "string"
    /\ URLPathname(last.url.s) # UrlThrows
    /\ StartsWith(URLPathname(last.url.s).s, <<"/", "a", "p", "i">>)

\* C10: every request with a path in the API namespace has been answered
\* with status 404 when its handler returns; none is left without a
\* response or answered with a success status.
C10_ApiAnswersNotFound ==
    LastInApiNamespace => (last.res.ended /\ last.res.statusCode = 404)

\* the handler the priority order of the routes names for a request: the
\* reload endpoint, then the API namespace, then any path from "/"; a
\* request without a URL, or whose URL has no path, is answered not found
PriorityHandler(url) ==
    IF url.t # "string" THEN "notFound"
    ELSE LET pn == URLPathname(url.s)
         IN  IF pn = UrlThrows THEN "notFound"
             ELSE IF pn.s = ReloadUrl THEN "SSERegister"
             ELSE IF StartsWith(pn.s, <<"/", "a", "p", "i">>) THEN "handleAPI"
             ELSE IF StartsWith(pn.s, <<"/">>) THEN "handleStatic"
             ELSE "notFound"

\* C11: every request is dispatched to exactly the handler the priority
\* order names (reload endpoint, API namespace, static), and a request with
\* no URL or with no matching path is answered with a 404.
C11_RoutePriority ==
    Handled =>
        /\ last.handler = PriorityHandler(last.url)
        /\ (PriorityHandler(last.url) = "notFound" =>
               (last.res.statusCode = 404 /\ last.res.ended))

\* the request handled last went to the static handler
LastIsStatic == Handled /\ last.handler = "handleStatic"

\* the path the static handler resolves the last request to: the joined
\* path, or the index.html below it when the joined path is a directory
StaticTarget ==
    LET joined == join(opts.dirpath.s,
                       getFilepath(URLPathname(last.url.s).s, JSUndefined).s)
    IN  IF IsDirectory(joined) THEN join(joined, IndexHtml) ELSE joined

\* C12: a static request whose resolved path cannot be read (missing file,
\* file used as a directory, directory without index.html) is answered with
\* a 404 carrying a message, the handler does not throw, and the listener
\* goes on accepting requests.
C12_UnreadableIsNotFound ==
    (LastIsStatic /\ ReadFileThrows(StaticTarget)) =>
        /\ last.res.statusCode = 404
        /\ last.res.ended
        /\ last.res.body = NotFoundMsg(last.accessed[Len(last.accessed)])
        /\ ~last.threw
        /\ listening

\* a directory without index.html was asked for
C12_Witness ==
    /\ LastIsStatic
    /\ IsDirectory(last.accessed[1])
    /\ ReadFileThrows(StaticTarget)
    /\ last.res.statusCode = 404

\* the last request was answered 200 with an HTML document by handleStatic
LastIsHtmlSuccess ==
    /\ LastIsStatic
    /\ last.res.statusCode = 200
    /\ last.res.content_type = "text/html"

\* C14: with watch enabled every 200 text/html response of the static
\* handler has the reload element in its body, whatever the file contains;
\* with watch disabled the body is the file as it is on disk.
C14_WatchInjectsSnippet ==
    LastIsHtmlSuccess =>
        IF Truthy(opts.watch)
        THEN \E j \in 1..Len(last.res.body) : last.res.body[j] = ReloadScript
        ELSE last.res.body = DiskEntry(StaticTarget).data

\* C17: no request stops the server: whatever the request target, the
\* wrapped handler ends without an error escaping it and the listener goes
\* on accepting requests.
C17_NoRequestStopsListener ==
    /\ listening
    /\ (Handled => ~last.threw)

\* the first static request of the behaviour has been recorded
FirstStaticKept == first_static \notin {JSUndefined, JSNull}

----------------------------------------------------------------------------
(* Properties of the watcher and of the broadcast *)

\* a step in which the watcher fails
WatcherFailStep == watcher = "watching" /\ watcher' = "failed"

\* a step in which a request is handled
RequestStep == last' # last

\* C15: a watcher failure is logged with log.err and ends the watch loop;
\* no broadcast happens afterwards; the failure leaves the listener, the Map
\* and the connections as they were, and a request handled after it is
\* answered as route answers it from the URL, the options and the Map alone.
C15_WatcherFailureIsContained ==
    /\ [][WatcherFailStep =>
             /\ log_errors' = log_errors + 1
             /\ listening' = listening
             /\ UNCHANGED <<opts, sse_connections, conns, last>>]_vars
    /\ [][watcher = "failed" =>
             /\ watcher' = "failed"
             /\ cb_calls' = cb_calls
             /\ \A c \in 1..Len(conns) :
                    conns'[c].res.written = conns[c].res.written]_vars
    /\ [][(RequestStep /\ watcher = "failed") =>
             \E r \in {route([url |-> last'.url,
                               remoteAddress |-> last'.remoteAddress,
                               conn |-> Len(conns) + 1],
                              NewResponse, opts, sse_connections)} :
                 /\ last'.handler = r.handler
                 /\ last'.res = r.res
                 /\ sse_connections' = r.registry
                 /\ listening' = ~r.threw]_vars

\* a page served after the watcher failed, its change events not broadcast
C15_Witness ==
    /\ watcher = "failed"
    /\ log_errors = 1
    /\ listening
    /\ LastIsHtmlSuccess
    /\ last.watcher = "failed"
    /\ Len(conns) = 1
    /\ conns[1].open
    /\ conns[1].res.written = << >>

\* C16: in a broadcast, a write to a stale stream (socket gone, close not
\* yet delivered) throws nothing and stops nothing: every other response in
\* the Map gets the reload message in that same broadcast, nothing is logged
\* as an error, the watch loop goes on and the next change event that finds
\* the throttle idle broadcasts again.
C16_StaleWriteDoesNotInterrupt ==
    /\ [][Broadcasts =>
             /\ \A c \in 1..Len(conns) :
                    conns'[c].res.written =
                       IF Stored(c) /\ ~conns[c].res.destroyed
                       THEN Append(conns[c].res.written, ReloadMsg)
                       ELSE conns[c].res.written
             /\ watcher' = "watching"
             /\ log_errors' = log_errors
             /\ listening']_vars
    /\ [][(ChangeEventStep /\ ~is_timed_out) => Broadcasts]_vars

\* the first entry of the Map is stale, the second got the message
C16_Witness ==
    /\ Len(conns) = 2
    /\ Len(sse_connections) = 2
    /\ sse_connections[1].value = 1
    /\ conns[1].res.destroyed
    /\ conns[1].res.written = << >>
    /\ conns[2].res.written = <<ReloadMsg>>
    /\ cb_calls = 1

----------------------------------------------------------------------------
(* Specifications *)

InitArgsSpec == InitArgs /\ ServerNotStarted /\ NoStaticCall

NextArgs == Main

\* the command line: process start to exit or to the running server
SpecArgs == InitArgsSpec /\ [][NextArgs]_vars

InitStaticSpec == InitStatic /\ NoCommandLine /\ ServerNotStarted

NextStatic == ServeStatic

\* the static handler as a library function
SpecStatic == InitStaticSpec /\ [][NextStatic]_vars

InitRoute == InitServer(ServerArgvInputs) /\ NoStaticCall /\ first_static = JSNull

NextRoute == RequestAny

\* the listener on its own: any sequence of requests
SpecRoute == InitRoute /\ [][NextRoute]_vars

InitReload == InitServer({<< >>, WatchArgv}) /\ NoStaticCall /\ first_static = JSNull

NextReload ==
    \/ RequestReload
    \/ CloseAny
    \/ WatchEvent(MaxReloadEvents)
    \/ TimerFire

\* live reload: registrations, closes, change events and the throttle timer
SpecReload == InitReload /\ [][NextReload]_vars

InitThrottle == InitServer(WatchArgvInputs) /\ NoStaticCall /\ first_static = JSNull

NextThrottle ==
    \/ WatchEvent(MaxEvents)
    \/ TimerFire

InitResolve ==
    InitServer({<< >>, << <<"/", "r">> >>}) /\ NoStaticCall /\ first_static = JSUndefined

NextResolve ==
    \/ RequestStatic
    \/ RequestStream
    \/ CloseAny

\* static requests from two clients while reload streams come and go
SpecResolve == InitResolve /\ [][NextResolve]_vars

InitWatch == InitServer({WatchArgv}) /\ NoStaticCall /\ first_static = JSNull

NextWatch ==
    \/ RequestWatched
    \/ CloseAny
    \/ WatchEvent(MaxReloadEvents)
    \/ TimerFire
    \/ WatcherFail

\* a page under live reload: requests, closes, change events, the throttle
\* timer and a failing watcher
SpecWatch == InitWatch /\ [][NextWatch]_vars

InitStale == InitServer({WatchArgv}) /\ NoStaticCall /\ first_static = JSNull

NextStale ==
    \/ RequestStream
    \/ SocketBreakAny
    \/ CloseAny
    \/ WatchEvent(MaxReloadEvents)
    \/ TimerFire

\* reload streams whose sockets break before their close is delivered
SpecStale == InitStale /\ [][NextStale]_vars

\* the watcher and its throttle with no client connected
SpecThrottle == InitThrottle /\ [][NextThrottle]_vars

\* a timer set with setTimeout expires while the process lives
FairSpecThrottle == SpecThrottle /\ WF_vars(TimerFire)

====
